---- MODULE Spec2Model ----
(***************************************************************************)
(* State-machine model of MissionMonitor (src/MissionMonitor.cpp and its   *)
(* header src/unnamed/part_000): the telemetry-driven failsafe supervisor  *)
(* of a ground rover.  The object is the record mm; every handler is a     *)
(* pure operator from the object (and the clock reading) to the object     *)
(* after the call, and one action per handler applies it.  The calls a     *)
(* handler makes on its collaborators (relay, audio player, mode command)  *)
(* are appended, in order, to mm.out, which is emptied when a handler      *)
(* starts.                                                                 *)
(***************************************************************************)
EXTENDS Integers, Sequences, FiniteSets

VARIABLES
    mm,            \* the MissionMonitor object, its relay and the calls of the last handler
    now,           \* the reading getMissionTime() returns, a uint32_t of milliseconds
    last,          \* the call that ran last ("tick", "onHeatbeat", or "event" for the
                   \* other telemetry handlers) and the value of _isFailed when it started
    streakSounds,  \* wrong-direction sounds played since _wrongDirectionCount was last 0
    link,          \* "none": no heartbeat received yet; "seen": a heartbeat was received
                   \* and no link loss reported since; "lost": link loss reported since
    sinceHeartbeat, \* clock steps gone by since the last heartbeat (-1: none received)
    sinceProgress, \* clock steps gone by since _lastProgressMadeTimeMilliseconds was
                   \* taken from the clock (-1: it holds no clock reading)
    gpsHold        \* a tick asked for HOLD since a heartbeat last changed the mode to AUTO

vars == <<mm, now, last, streakSounds, link, sinceHeartbeat, sinceProgress, gpsHold>>

----------------------------------------------------------------------------
(* Bounds of the model *)

\* the clock is advanced at most this many half-timeouts past its wrap point
MaxAdvances == 3

----------------------------------------------------------------------------
(* Configuration and fixed-width arithmetic *)

\* constructor argument secondsBeforeEmergencyStop
secondsBeforeEmergencyStop == 1

\* constructor argument lowestGpsFixTpye (GPS_FIX_TYPE_3D_FIX)
lowestGpsFixTpye == 3

\* A uint32_t is the pair <<high 16 bits, low 16 bits>>, so that every
\* intermediate value stays within the integers the model checker computes with.
Word == 2^16

UInt16Max == Word - 1

\* the uint32_t of a natural number below 2^31
U32(n) == <<(n \div Word) % Word, n % Word>>

Zero32 == <<0, 0>>

\* (uint32_t)-1, also (unsigned long)-1 truncated to 32 bits
Max32 == <<UInt16Max, UInt16Max>>

\* uint32_t addition
Add32(a, b) ==
    LET lo == a[2] + b[2]
    IN  <<(a[1] + b[1] + (lo \div Word)) % Word, lo % Word>>

\* uint32_t subtraction
Sub32(a, b) ==
    LET lo     == a[2] - b[2]
        borrow == IF lo < 0 THEN 1 ELSE 0
    IN  <<(a[1] - b[1] - borrow) % Word, lo % Word>>

\* a >= b on uint32_t
Geq32(a, b) == a[1] > b[1] \/ (a[1] = b[1] /\ a[2] >= b[2])

\* _secondsBeforeEmergencyStop * 1000
TimeoutMs == U32(secondsBeforeEmergencyStop * 1000)

max(a, b) == IF a < b THEN b ELSE a

----------------------------------------------------------------------------
(* Inputs *)

Modes == {"INITIALIZING", "HOLD", "AUTO"}

MavTypes == {"GROUND_ROVER", "GCS"}

BaseModes == {128}

Heartbeats == [type : MavTypes, custom_mode : Modes, base_mode : BaseModes]

FixTypes == {0, 3}

Distances == {50, 60, 70, UInt16Max}

WaypointIds == {0, 1}

\* the time that passes in one step of the clock
HalfTimeout == U32((secondsBeforeEmergencyStop * 1000) \div 2)

\* the clock at construction: at 0, or one step before it wraps to 0
StartTimes == {Zero32, Sub32(Zero32, HalfTimeout)}

\* the clock reading at which the model stops advancing it
EndTime == U32(MaxAdvances * ((secondsBeforeEmergencyStop * 1000) \div 2))

----------------------------------------------------------------------------
(* Collaborator calls *)

Emit(m, call) == [m EXCEPT !.out = Append(@, call)]

playSound(m, sound) == Emit(m, <<"play", sound>>)

sendModeChange(m, roverMode) == Emit(m, <<"sendModeChange", roverMode>>)

powerRelayOff(m) == Emit([m EXCEPT !.powerRelay = "off"], <<"powerRelayOff">>)

powerRelayOn(m) == Emit([m EXCEPT !.powerRelay = "on"], <<"powerRelayOn">>)

alarmRelayOn(m) == Emit([m EXCEPT !.alarmRelay = "on"], <<"alarmRelayOn">>)

alarmRelayOff(m) == Emit([m EXCEPT !.alarmRelay = "off"], <<"alarmRelayOff">>)

----------------------------------------------------------------------------
(* MissionMonitor *)

\* The object after construction.  The header initialises _roverMode,
\* _lastDistanceToWaypoint ((uint16_t)-1), _lastProgressMadeTimeMilliseconds
\* ((unsigned long)-1) and _currentWaypointSequenceId; the members it does not
\* declare start as the data model states them: flags false, counters 0, fix
\* types "no fix".  _lastHeartbeatTimeMilliseconds is not read before the first
\* heartbeat writes it.  The relays are in no known position before the first
\* actuation.
MissionMonitor ==
    [ roverMode                        |-> "INITIALIZING",
      mavModeFlag                      |-> 0,
      lastDistanceToWaypoint           |-> UInt16Max,
      lastProgressMadeTimeMilliseconds |-> Max32,
      currentWaypointSequenceId        |-> 0,
      lastHeartbeatTimeMilliseconds    |-> Zero32,
      wrongDirection                   |-> FALSE,
      wrongDirectionCount              |-> 0,
      gps1FixType                      |-> 0,
      gps2FixType                      |-> 0,
      isFailed                         |-> FALSE,
      firstHeartbeat                   |-> FALSE,
      firstTick                        |-> FALSE,
      powerRelay                       |-> "unset",
      alarmRelay                       |-> "unset",
      out                              |-> <<>> ]

ModeSound(roverMode) ==
    CASE roverMode = "MANUAL"    -> "MANUAL_MODE_SOUND"
      [] roverMode = "ACRO"      -> "ACRO_MODE_SOUND"
      [] roverMode = "STEERING"  -> "STEERING_MODE_SOUND"
      [] roverMode = "HOLD"      -> "HOLD_MODE_SOUND"
      [] roverMode = "LOITER"    -> "LOITER_MODE_SOUND"
      [] roverMode = "AUTO"      -> "AUTO_MODE_SOUND"
      [] roverMode = "RTL"       -> "RTL_MODE_SOUND"
      [] roverMode = "SMART_RTL" -> "SRTL_MODE_SOUND"
      [] roverMode = "GUIDED"    -> "GUIDED_MODE_SOUND"
      [] OTHER                   -> "NONE"

play(m, roverMode) ==
    IF ModeSound(roverMode) = "NONE" THEN m ELSE playSound(m, ModeSound(roverMode))

\* start() with the two relay calls of failMission()
start_relaysSwapped(m) ==
    alarmRelayOn(powerRelayOff(
        [m EXCEPT !.lastProgressMadeTimeMilliseconds = Zero32,
                  !.isFailed = FALSE,
                  !.wrongDirection = FALSE,
                  !.wrongDirectionCount = 0]))

\* start() that forgets to clear the latch
start_keepsFailed(m) ==
    alarmRelayOff(powerRelayOn(
        [m EXCEPT !.lastProgressMadeTimeMilliseconds = Zero32,
                  !.wrongDirection = FALSE,
                  !.wrongDirectionCount = 0]))

start(m) ==
    alarmRelayOff(powerRelayOn(
        [m EXCEPT !.lastProgressMadeTimeMilliseconds = Zero32,
                  !.isFailed = FALSE,
                  !.wrongDirection = FALSE,
                  !.wrongDirectionCount = 0]))

\* failMission() that leaves the power relay alone
failMission_alarmOnly(m) ==
    playSound(alarmRelayOn([m EXCEPT !.isFailed = TRUE]), "EMERGENCY_STOP_SOUND")

failMission(m) ==
    playSound(alarmRelayOn(powerRelayOff([m EXCEPT !.isFailed = TRUE])),
              "EMERGENCY_STOP_SOUND")

isModeChange(m, hb) ==
    hb.type = "GROUND_ROVER" /\ hb.custom_mode # m.roverMode

\* onHeatbeat() that stores the mode flags of every heartbeat
onHeatbeat_storesFlagAlways(m, t, hb) ==
    LET m1 == [m EXCEPT !.lastHeartbeatTimeMilliseconds = t,
                        !.mavModeFlag = hb.base_mode]
        m2 == IF isModeChange(m1, hb)
              THEN start([play(m1, hb.custom_mode)
                              EXCEPT !.mavModeFlag = hb.base_mode,
                                     !.roverMode = hb.custom_mode])
              ELSE m1
    IN  IF m2.firstHeartbeat = FALSE
        THEN playSound([m2 EXCEPT !.firstHeartbeat = TRUE], "MAVLINK_GOOD_SOUND")
        ELSE m2

\* onHeatbeat() that also restarts when the link comes back
onHeatbeat_restartsOnReconnect(m, t, hb) ==
    LET m1 == [m EXCEPT !.lastHeartbeatTimeMilliseconds = t]
        m2 == IF isModeChange(m1, hb)
              THEN start([play(m1, hb.custom_mode)
                              EXCEPT !.mavModeFlag = hb.base_mode,
                                     !.roverMode = hb.custom_mode])
              ELSE m1
    IN  IF m2.firstHeartbeat = FALSE
        THEN playSound(start([m2 EXCEPT !.firstHeartbeat = TRUE]), "MAVLINK_GOOD_SOUND")
        ELSE m2

onHeatbeat(m, t, hb) ==
    LET m1 == [m EXCEPT !.lastHeartbeatTimeMilliseconds = t]
        m2 == IF isModeChange(m1, hb)
              THEN start([play(m1, hb.custom_mode)
                              EXCEPT !.mavModeFlag = hb.base_mode,
                                     !.roverMode = hb.custom_mode])
              ELSE m1
    IN  IF m2.firstHeartbeat = FALSE
        THEN playSound([m2 EXCEPT !.firstHeartbeat = TRUE], "MAVLINK_GOOD_SOUND")
        ELSE m2

onMissionItemReached(m, t) ==
    [m EXCEPT !.lastProgressMadeTimeMilliseconds = t]

\* _lastDistanceToWaypoint == -1 : the uint16_t is promoted to int, so its
\* value 0..65535 is compared with the int -1
isUnknownDistance(m) ==
    m.lastDistanceToWaypoint = -1

progressMade(m, wp_dist) ==
    IF isUnknownDistance(m) THEN TRUE
    ELSE IF m.lastDistanceToWaypoint = wp_dist THEN ~m.wrongDirection
    ELSE IF m.lastDistanceToWaypoint < wp_dist THEN FALSE
    ELSE TRUE

\* the moving-away branch taken for a steady reading too while wrongDirection
movingAway_orSteady(m, wp_dist) ==
    /\ ~isUnknownDistance(m)
    /\ \/ m.lastDistanceToWaypoint < wp_dist
       \/ (m.lastDistanceToWaypoint = wp_dist /\ m.wrongDirection)

movingAway(m, wp_dist) ==
    /\ ~isUnknownDistance(m)
    /\ m.lastDistanceToWaypoint # wp_dist
    /\ m.lastDistanceToWaypoint < wp_dist

onNavControllerOutput(m, t, wp_dist) ==
    LET m1 == IF movingAway(m, wp_dist)
              THEN [m EXCEPT !.wrongDirection = TRUE,
                             !.wrongDirectionCount = @ + 1]
              ELSE m
        m2 == [m1 EXCEPT !.lastDistanceToWaypoint = wp_dist]
    IN  IF progressMade(m, wp_dist)
        THEN [m2 EXCEPT !.lastProgressMadeTimeMilliseconds = t,
                        !.wrongDirection = FALSE,
                        !.wrongDirectionCount = 0]
        ELSE m2

onMissionCurrent(m, t, seq) ==
    IF m.currentWaypointSequenceId # seq
    THEN [m EXCEPT !.currentWaypointSequenceId = seq,
                   !.lastDistanceToWaypoint = UInt16Max,
                   !.lastProgressMadeTimeMilliseconds = t]
    ELSE m

onGPSRawInt(m, fix_type) == [m EXCEPT !.gps1FixType = fix_type]

onGPS2Raw(m, fix_type) == [m EXCEPT !.gps2FixType = fix_type]

\* mavlinkLost with > for >=
mavlinkLost_strict(m, t) ==
    /\ m.firstHeartbeat
    /\ Sub32(t, m.lastHeartbeatTimeMilliseconds) # TimeoutMs
    /\ Geq32(Sub32(t, m.lastHeartbeatTimeMilliseconds), TimeoutMs)

\* mavlinkLost that compares the clock with a deadline instead of subtracting
mavlinkLost_deadline(m, t) ==
    /\ m.firstHeartbeat
    /\ Geq32(t, Add32(m.lastHeartbeatTimeMilliseconds, TimeoutMs))

mavlinkLost(m, t) ==
    m.firstHeartbeat /\ Geq32(Sub32(t, m.lastHeartbeatTimeMilliseconds), TimeoutMs)

\* gpsLost with <= for <
gpsLost_orEqual(m) ==
    max(m.gps1FixType, m.gps2FixType) <= lowestGpsFixTpye

gpsLost(m) ==
    max(m.gps1FixType, m.gps2FixType) < lowestGpsFixTpye

\* noProgress without the test of the disarmed timer
noProgress_noSentinel(m, t) ==
    Geq32(Sub32(t, m.lastProgressMadeTimeMilliseconds), TimeoutMs)

noProgress(m, t) ==
    /\ m.lastProgressMadeTimeMilliseconds # Zero32
    /\ Geq32(Sub32(t, m.lastProgressMadeTimeMilliseconds), TimeoutMs)

\* the link-loss branch without "start looking for first heartbeat again"
onMavlinkLost_keepsFirstHeartbeat(m) ==
    playSound(failMission(m), "MAVLINK_BAD_SOUND")

onMavlinkLost(m) ==
    playSound([failMission(m) EXCEPT !.firstHeartbeat = FALSE], "MAVLINK_BAD_SOUND")

wrongDirectionCheck(m) ==
    IF m.wrongDirectionCount = 2
    THEN playSound([m EXCEPT !.wrongDirectionCount = @ + 1], "WRONG_DIRECTION_SOUND")
    ELSE m

\* the AUTO branch with the stall test not under the else of the GPS test
evaluateAuto_noElse(m, lost, stalled) ==
    LET m1 == IF lost
              THEN playSound(sendModeChange(m, "HOLD"), "GPS_SIGNAL_LOW_SOUND")
              ELSE m
    IN  wrongDirectionCheck(IF stalled THEN failMission(m1) ELSE m1)

\* the AUTO branch with the stall test ahead of the GPS test
evaluateAuto_stallFirst(m, lost, stalled) ==
    wrongDirectionCheck(
        IF stalled THEN failMission(m)
        ELSE IF lost THEN playSound(sendModeChange(m, "HOLD"), "GPS_SIGNAL_LOW_SOUND")
        ELSE m)

evaluateAuto(m, lost, stalled) ==
    wrongDirectionCheck(
        IF lost THEN playSound(sendModeChange(m, "HOLD"), "GPS_SIGNAL_LOW_SOUND")
        ELSE IF stalled THEN failMission(m)
        ELSE m)

\* evaluateMission without the test of the latch
evaluateMission_noLatch(m, t) ==
    LET isAutoMode == m.roverMode = "AUTO"
        isHoldMode == m.roverMode = "HOLD"
        linkLost   == mavlinkLost(m, t)
        lost       == gpsLost(m)
        stalled    == noProgress(m, t)
        m1         == IF linkLost THEN onMavlinkLost(m) ELSE m
    IN  IF isAutoMode THEN evaluateAuto(m1, lost, stalled)
        ELSE IF isHoldMode /\ ~lost THEN sendModeChange(m1, "AUTO")
        ELSE m1

evaluateMission(m, t) ==
    LET isAutoMode == m.roverMode = "AUTO"
        isHoldMode == m.roverMode = "HOLD"
        linkLost   == mavlinkLost(m, t)
        lost       == gpsLost(m)
        stalled    == noProgress(m, t)
        m1         == IF linkLost THEN onMavlinkLost(m) ELSE m
    IN  IF ~m.isFailed
        THEN IF isAutoMode THEN evaluateAuto(m1, lost, stalled)
             ELSE IF isHoldMode /\ ~lost THEN sendModeChange(m1, "AUTO")
             ELSE m1
        ELSE m

\* tick() that plays the ready sound before it evaluates
tick_readyBeforeEvaluation(m, t) ==
    IF ~m.firstTick
    THEN evaluateMission(playSound([m EXCEPT !.firstTick = TRUE], "READY_SOUND"), t)
    ELSE evaluateMission(m, t)

tick(m, t) ==
    LET m1 == evaluateMission(m, t)
    IN  IF ~m1.firstTick
        THEN playSound([m1 EXCEPT !.firstTick = TRUE], "READY_SOUND")
        ELSE m1

----------------------------------------------------------------------------
(* The state machine *)

\* a handler starts with no collaborator call made
Enter == [mm EXCEPT !.out = <<>>]

Count(seq, x) == Cardinality({i \in DOMAIN seq : seq[i] = x})

\* the handler `op` took the object to `m`; `stored` tells whether it stored
\* the clock reading in _lastProgressMadeTimeMilliseconds
Ran(op, m, stored) ==
    /\ mm' = m
    /\ last' = [op |-> op, wasFailed |-> mm.isFailed]
    /\ streakSounds' =
          IF m.wrongDirectionCount = 0 THEN 0
          ELSE streakSounds + Count(m.out, <<"play", "WRONG_DIRECTION_SOUND">>)
    /\ link' =
          IF op = "onHeatbeat" THEN "seen"
          ELSE IF Count(m.out, <<"play", "MAVLINK_BAD_SOUND">>) > 0 THEN "lost"
          ELSE link
    /\ sinceHeartbeat' = IF op = "onHeatbeat" THEN 0 ELSE sinceHeartbeat
    /\ sinceProgress' =
          IF Count(m.out, <<"powerRelayOn">>) > 0 THEN -1
          ELSE IF stored THEN 0
          ELSE sinceProgress
    /\ gpsHold' =
          IF Count(m.out, <<"sendModeChange", "HOLD">>) > 0 THEN TRUE
          ELSE IF m.roverMode = "AUTO" /\ mm.roverMode # "AUTO" THEN FALSE
          ELSE gpsHold
    /\ UNCHANGED now

Init ==
    /\ mm = MissionMonitor
    /\ now \in StartTimes
    /\ last = [op |-> "MissionMonitor", wasFailed |-> FALSE]
    /\ streakSounds = 0
    /\ link = "none"
    /\ sinceHeartbeat = -1
    /\ sinceProgress = -1
    /\ gpsHold = FALSE

Heartbeat ==
    \E hb \in Heartbeats : Ran("onHeatbeat", onHeatbeat(Enter, now, hb), FALSE)

MissionItemReached == Ran("event", onMissionItemReached(Enter, now), TRUE)

NavControllerOutput ==
    \E wp_dist \in Distances :
        Ran("event", onNavControllerOutput(Enter, now, wp_dist),
            progressMade(Enter, wp_dist))

MissionCurrent ==
    \E seq \in WaypointIds :
        Ran("event", onMissionCurrent(Enter, now, seq),
            Enter.currentWaypointSequenceId # seq)

GPSRawInt ==
    \E fix_type \in FixTypes : Ran("event", onGPSRawInt(Enter, fix_type), FALSE)

GPS2Raw ==
    \E fix_type \in FixTypes : Ran("event", onGPS2Raw(Enter, fix_type), FALSE)

Tick == Ran("tick", tick(Enter, now), FALSE)

\* time passes between two calls
Advance ==
    /\ now # EndTime
    /\ now' = Add32(now, HalfTimeout)
    /\ sinceHeartbeat' = IF sinceHeartbeat < 0 THEN sinceHeartbeat ELSE sinceHeartbeat + 1
    /\ sinceProgress' = IF sinceProgress < 0 THEN sinceProgress ELSE sinceProgress + 1
    /\ UNCHANGED <<mm, last, streakSounds, link, gpsHold>>

Next ==
    \/ Heartbeat
    \/ MissionItemReached
    \/ NavControllerOutput
    \/ MissionCurrent
    \/ GPSRawInt
    \/ GPS2Raw
    \/ Tick
    \/ Advance

Spec == Init /\ [][Next]_vars

----------------------------------------------------------------------------
(* Vocabulary of the properties *)

\* this step is a call of a handler of kind op (the clock stands still meanwhile)
HandlerStep(op) == now' = now /\ last'.op = op

\* this step is a call of some handler
AnyHandlerStep == now' = now

\* the number of times the last handler made the call
Calls(m, call) == Count(m.out, call)

PlayCall(sound) == <<"play", sound>>

ModeCall(roverMode) == <<"sendModeChange", roverMode>>

\* what the reset routine leaves behind
ResetState(m) ==
    /\ m.isFailed = FALSE
    /\ m.lastProgressMadeTimeMilliseconds = Zero32
    /\ m.wrongDirection = FALSE
    /\ m.wrongDirectionCount = 0

\* no heartbeat for at least the emergency-stop timeout, read on the clock
HeartbeatOverdue ==
    Geq32(Sub32(now, mm.lastHeartbeatTimeMilliseconds), TimeoutMs)

BestFix == IF mm.gps1FixType >= mm.gps2FixType THEN mm.gps1FixType ELSE mm.gps2FixType

\* the relays were driven to power OFF / alarm ON by the last handler
FailSafeActuated(m) ==
    /\ Calls(m, <<"powerRelayOff">>) > 0
    /\ Calls(m, <<"alarmRelayOn">>) > 0
    /\ m.powerRelay = "off"
    /\ m.alarmRelay = "on"

----------------------------------------------------------------------------
(* C1 *)

\* C1 as stated: every onHeartbeat whose reported mode differs from the stored
\* mode runs the reset routine: afterwards failed is false, lastProgressTime
\* is 0, wrongDirection is false, the streak is 0 and the stored mode is the
\* reported one.  (Refuted: a heartbeat that is not of a ground rover is
\* ignored for the mode.)
C1_ResetOnAnyModeDifference ==
    [][\A hb \in Heartbeats :
          (/\ HandlerStep("onHeatbeat")
           /\ hb.custom_mode # mm.roverMode
           /\ mm' = onHeatbeat(Enter, now, hb))
          => (ResetState(mm') /\ mm'.roverMode = hb.custom_mode)]_vars

\* C1 amended: every onHeartbeat of a ground rover whose reported mode differs
\* from the stored mode runs the reset routine, whatever failed was before:
\* afterwards failed is false, lastProgressTime is 0, wrongDirection is false,
\* the streak is 0 and the stored mode is the reported one.
C1_ResetOnRoverModeChange ==
    [][\A hb \in Heartbeats :
          (/\ HandlerStep("onHeatbeat")
           /\ hb.type = "GROUND_ROVER"
           /\ hb.custom_mode # mm.roverMode
           /\ mm' = onHeatbeat(Enter, now, hb))
          => (ResetState(mm') /\ mm'.roverMode = hb.custom_mode)]_vars

\* a mode change arrived while the failsafe was latched, and reset it
C1_Witness ==
    /\ last = [op |-> "onHeatbeat", wasFailed |-> TRUE]
    /\ Calls(mm, <<"powerRelayOn">>) = 1
    /\ ResetState(mm)
    /\ mm.roverMode = "AUTO"

----------------------------------------------------------------------------
(* C2 *)

\* C2: failed goes from true to false only in an onHeartbeat that changes the
\* stored mode (it reported a mode different from the stored one); no tick, no
\* other handler and no heartbeat with an unchanged mode clears it.
C2_FailedClearsOnlyOnModeChange ==
    [][(mm.isFailed /\ ~mm'.isFailed)
          => (HandlerStep("onHeatbeat") /\ mm'.roverMode # mm.roverMode)]_vars

\* a heartbeat re-established the link lost before and, reporting a new mode,
\* cleared the latch
C2_Witness ==
    /\ last = [op |-> "onHeatbeat", wasFailed |-> TRUE]
    /\ ~mm.isFailed
    /\ Calls(mm, PlayCall("MAVLINK_GOOD_SOUND")) = 1
    /\ mm.roverMode = "HOLD"

----------------------------------------------------------------------------
(* C3 *)

\* C3: a tick that starts with failed set makes no relay, sound or mode call
\* and leaves every field of the state as it was.
C3_FailedTickIsInert ==
    [][(HandlerStep("tick") /\ mm.isFailed) => mm' = Enter]_vars

\* a tick ran on a latched failsafe
C3_Witness ==
    /\ last = [op |-> "tick", wasFailed |-> TRUE]
    /\ mm.isFailed
    /\ mm.firstTick
    /\ mm.out = <<>>

----------------------------------------------------------------------------
(* C4 *)

\* what C4 requires of a tick
LinkLossHandled(m) ==
    /\ m.isFailed
    /\ FailSafeActuated(m)
    /\ ~m.firstHeartbeat

\* C4 as stated: in every state with heartbeatSeen set and no heartbeat for at
\* least emergencyStopTimeout, the next tick sets failed, drives the relays to
\* power OFF / alarm ON and clears heartbeatSeen.  (Refuted: with failed
\* already latched the tick does nothing.)
C4_LinkLossAlwaysTrips ==
    [][(HandlerStep("tick") /\ mm.firstHeartbeat /\ HeartbeatOverdue)
          => LinkLossHandled(mm')]_vars

\* C4 amended: in every state with failed clear, heartbeatSeen set and no
\* heartbeat for at least emergencyStopTimeout, the next tick sets failed,
\* drives the relays to power OFF / alarm ON and clears heartbeatSeen.
C4_LinkLossTripsUnlessFailed ==
    [][(HandlerStep("tick") /\ ~mm.isFailed /\ mm.firstHeartbeat /\ HeartbeatOverdue)
          => LinkLossHandled(mm')]_vars

\* a tick tripped the failsafe for a lost link
C4_Witness ==
    /\ last = [op |-> "tick", wasFailed |-> FALSE]
    /\ LinkLossHandled(mm)
    /\ Calls(mm, PlayCall("MAVLINK_BAD_SOUND")) = 1
    /\ HeartbeatOverdue

----------------------------------------------------------------------------
(* C5 *)

\* the step is one of the calls that arm the progress timer
ArmingEvent ==
    /\ HandlerStep("event")
    /\ \/ mm' = onMissionItemReached(Enter, now)
       \/ \E seq \in WaypointIds :
             seq # mm.currentWaypointSequenceId /\ mm' = onMissionCurrent(Enter, now, seq)
       \/ \E wp_dist \in Distances :
             /\ mm' = onNavControllerOutput(Enter, now, wp_dist)
             /\ mm'.wrongDirectionCount = 0
             /\ ~mm'.wrongDirection

\* C5: while lastProgressTime is 0 no tick trips the failsafe for stalled
\* progress (a tick that does not see the link lost leaves failed clear and
\* plays no emergency stop), and lastProgressTime leaves 0 only by
\* onWaypointReached, onMissionCurrent with a new waypoint id or a
\* progress-classified onNavControllerOutput.
C5_DisarmedTimerNeverStalls ==
    [][/\ (/\ HandlerStep("tick")
           /\ mm.lastProgressMadeTimeMilliseconds = Zero32
           /\ ~(mm.firstHeartbeat /\ HeartbeatOverdue))
          => (/\ mm'.isFailed = mm.isFailed
              /\ Calls(mm', PlayCall("EMERGENCY_STOP_SOUND")) = 0)
       /\ (/\ mm.lastProgressMadeTimeMilliseconds = Zero32
           /\ mm'.lastProgressMadeTimeMilliseconds # Zero32)
          => ArmingEvent]_vars

\* a tick in AUTO with good GPS, the timer disarmed and time gone by since the
\* last heartbeat, which left the failsafe clear
C5_Witness ==
    /\ last = [op |-> "tick", wasFailed |-> FALSE]
    /\ mm.roverMode = "AUTO"
    /\ BestFix >= lowestGpsFixTpye
    /\ mm.lastProgressMadeTimeMilliseconds = Zero32
    /\ now # mm.lastHeartbeatTimeMilliseconds
    /\ now # Zero32
    /\ ~mm.isFailed

----------------------------------------------------------------------------
(* C6 *)

\* C6: every tick that starts in AUTO with failed clear and the better of the
\* two GPS fixes below the minimum asks for HOLD and plays the GPS-degraded
\* sound, on each such tick.
C6_GpsLossIsLevelTriggered ==
    [][(/\ HandlerStep("tick")
        /\ mm.roverMode = "AUTO"
        /\ ~mm.isFailed
        /\ BestFix < lowestGpsFixTpye)
          => (/\ Calls(mm', ModeCall("HOLD")) = 1
              /\ Calls(mm', PlayCall("GPS_SIGNAL_LOW_SOUND")) = 1)]_vars

\* a tick later than the first one asked for HOLD again, the vehicle still
\* being in AUTO with an armed progress timer that had run out
C6_Witness ==
    /\ last = [op |-> "tick", wasFailed |-> FALSE]
    /\ mm.roverMode = "AUTO"
    /\ Calls(mm, ModeCall("HOLD")) = 1
    /\ Calls(mm, PlayCall("GPS_SIGNAL_LOW_SOUND")) = 1
    /\ Calls(mm, PlayCall("READY_SOUND")) = 0
    /\ mm.lastProgressMadeTimeMilliseconds # Zero32
    /\ Geq32(Sub32(now, mm.lastProgressMadeTimeMilliseconds), TimeoutMs)

----------------------------------------------------------------------------
(* C7 *)

\* C7 as stated: in HOLD with the best fix at or above the minimum, a tick
\* asks for AUTO exactly once, whether failed is latched or not.  (Refuted:
\* with failed latched the tick asks for nothing.)
C7_HoldRecoveryIgnoresLatch ==
    [][(/\ HandlerStep("tick")
        /\ mm.roverMode = "HOLD"
        /\ BestFix >= lowestGpsFixTpye)
          => Calls(mm', ModeCall("AUTO")) = 1]_vars

\* C7 amended: in HOLD with the best fix at or above the minimum and failed
\* clear, a tick asks for AUTO exactly once.
C7_HoldRecoveryUnlessFailed ==
    [][(/\ HandlerStep("tick")
        /\ mm.roverMode = "HOLD"
        /\ ~mm.isFailed
        /\ BestFix >= lowestGpsFixTpye)
          => Calls(mm', ModeCall("AUTO")) = 1]_vars

\* a tick in HOLD with a good fix asked for AUTO
C7_Witness ==
    /\ last = [op |-> "tick", wasFailed |-> FALSE]
    /\ mm.roverMode = "HOLD"
    /\ BestFix >= lowestGpsFixTpye
    /\ mm.out = <<ModeCall("AUTO")>>

----------------------------------------------------------------------------
(* C8 *)

\* C8: the wrong-direction sound is played exactly once per streak: never
\* twice, and once a tick in AUTO with failed clear has seen a streak of at
\* least 2, the sound has been played once for that streak, however readings
\* and ticks interleave.  (Refuted: a streak that passes 2 between two ticks
\* never plays it.)
C8_WrongDirectionSoundOncePerStreak ==
    [][/\ streakSounds' <= 1
       /\ (/\ HandlerStep("tick")
           /\ mm.roverMode = "AUTO"
           /\ ~mm.isFailed
           /\ mm.wrongDirectionCount >= 2)
          => streakSounds' = 1]_vars

----------------------------------------------------------------------------
(* C9 *)

\* the table of C9 for the previous distance, the reading and wrongDirection
TableProgress(prev, next, wrong) ==
    \/ prev = UInt16Max
    \/ prev > next
    \/ (prev = next /\ ~wrong)

\* C9: onNavControllerOutput follows the table: on progress lastProgressTime
\* is the clock reading, wrongDirection is false and the streak 0; moving away
\* sets wrongDirection and adds 1 to the streak; a steady reading while
\* wrongDirection changes none of the three; the distance is the reading in
\* every case.  (Refuted: the stored uint16_t 65535 never equals -1, so the
\* unknown sentinel is not recognised, and a first reading equal to it, with
\* wrongDirection set, is not progress.)
C9_NavOutputFollowsTable ==
    [][\A wp_dist \in Distances :
          (/\ HandlerStep("event")
           /\ mm' = onNavControllerOutput(Enter, now, wp_dist))
          => /\ mm'.lastDistanceToWaypoint = wp_dist
             /\ IF TableProgress(mm.lastDistanceToWaypoint, wp_dist, mm.wrongDirection)
                THEN /\ mm'.lastProgressMadeTimeMilliseconds = now
                     /\ ~mm'.wrongDirection
                     /\ mm'.wrongDirectionCount = 0
                ELSE IF mm.lastDistanceToWaypoint < wp_dist
                THEN /\ mm'.wrongDirection
                     /\ mm'.wrongDirectionCount = mm.wrongDirectionCount + 1
                     /\ mm'.lastProgressMadeTimeMilliseconds
                            = mm.lastProgressMadeTimeMilliseconds
                ELSE /\ mm'.wrongDirection = mm.wrongDirection
                     /\ mm'.wrongDirectionCount = mm.wrongDirectionCount
                     /\ mm'.lastProgressMadeTimeMilliseconds
                            = mm.lastProgressMadeTimeMilliseconds]_vars

----------------------------------------------------------------------------
(* C10 *)

\* C10 as stated: the link-acquired sound is played by the first heartbeat
\* ever received and by no other heartbeat, tick or event.  (Refuted: the
\* first heartbeat after a reported link loss plays it again.)
C10_LinkAcquiredOnlyOnce ==
    [][AnyHandlerStep
          => (Calls(mm', PlayCall("MAVLINK_GOOD_SOUND")) =
                 IF HandlerStep("onHeatbeat") /\ link = "none" THEN 1 ELSE 0)]_vars

\* C10 amended: the link-acquired sound is played by the first heartbeat ever
\* received and by the first heartbeat after each link loss a tick reported,
\* once, and by no other heartbeat, tick or event.
C10_LinkAcquiredOncePerLink ==
    [][AnyHandlerStep
          => (Calls(mm', PlayCall("MAVLINK_GOOD_SOUND")) =
                 IF HandlerStep("onHeatbeat") /\ link # "seen" THEN 1 ELSE 0)]_vars

\* a heartbeat after a reported link loss played the sound, and later
\* heartbeats on the same link did not
C10_Witness ==
    /\ last = [op |-> "onHeatbeat", wasFailed |-> TRUE]
    /\ Calls(mm, PlayCall("MAVLINK_GOOD_SOUND")) = 0
    /\ mm.firstHeartbeat
    /\ mm.isFailed

----------------------------------------------------------------------------
(* C11 *)

\* C11: after a reset lastProgressTime stays 0 exactly until the first
\* onWaypointReached, onMissionCurrent with a new waypoint id or
\* progress-classified onNavControllerOutput; after any such call it is
\* nonzero, whatever the clock reads, and only the reset routine writes 0.
\* (Refuted: such a call at clock reading 0 stores 0, the disarmed value.)
C11_ProgressEventArmsTimer ==
    [][/\ ArmingEvent => mm'.lastProgressMadeTimeMilliseconds # Zero32
       /\ (/\ mm.lastProgressMadeTimeMilliseconds = Zero32
           /\ mm'.lastProgressMadeTimeMilliseconds # Zero32) => ArmingEvent
       /\ (/\ mm.lastProgressMadeTimeMilliseconds # Zero32
           /\ mm'.lastProgressMadeTimeMilliseconds = Zero32)
             => (HandlerStep("onHeatbeat") /\ mm'.roverMode # mm.roverMode)]_vars

----------------------------------------------------------------------------
(* C12 *)

\* the time gone by in `steps` steps of the clock reaches the timeout
TimedOut(steps) == steps * (HalfTimeout[1] * Word + HalfTimeout[2])
                       >= TimeoutMs[1] * Word + TimeoutMs[2]

\* C12: whenever a heartbeat has been seen, the evaluator's linkLost is true
\* exactly when the time truly gone by since the last heartbeat is at least
\* the timeout, and whenever the progress timer holds a nonzero clock reading
\* its stalled is true exactly when the time truly gone by since that reading
\* is at least the timeout; also when the clock wrapped in between.
C12_ElapsedTimeAcrossWraparound ==
    /\ (mm.firstHeartbeat /\ sinceHeartbeat >= 0)
          => (mavlinkLost(mm, now) <=> TimedOut(sinceHeartbeat))
    /\ (mm.lastProgressMadeTimeMilliseconds # Zero32 /\ sinceProgress >= 0)
          => (noProgress(mm, now) <=> TimedOut(sinceProgress))

\* a tick reported the link lost a timeout after a heartbeat taken before the
\* clock wrapped, and the progress timer, armed before the wrap too, has run out
C12_Witness ==
    /\ last = [op |-> "tick", wasFailed |-> FALSE]
    /\ Calls(mm, PlayCall("MAVLINK_BAD_SOUND")) = 1
    /\ ~Geq32(now, mm.lastHeartbeatTimeMilliseconds)
    /\ TimedOut(sinceHeartbeat)
    /\ sinceProgress >= 0
    /\ ~Geq32(now, mm.lastProgressMadeTimeMilliseconds)
    /\ noProgress(mm, now)

----------------------------------------------------------------------------
(* C13 *)

\* C13: the ready sound is played exactly once, by the first tick, as the
\* last call that tick makes (after every call of its evaluation); no event
\* and no later tick plays it.
C13_ReadySoundOnceAfterEvaluation ==
    [][AnyHandlerStep =>
          /\ Calls(mm', PlayCall("READY_SOUND")) =
                 IF HandlerStep("tick") /\ ~mm.firstTick THEN 1 ELSE 0
          /\ Calls(mm', PlayCall("READY_SOUND")) = 1
                 => mm'.out[Len(mm'.out)] = PlayCall("READY_SOUND")
          /\ mm.firstTick => mm'.firstTick
          /\ HandlerStep("tick") => mm'.firstTick
          /\ (~mm.firstTick /\ mm'.firstTick) => HandlerStep("tick")]_vars

\* the first tick asked for HOLD, played the GPS-degraded sound and then the
\* ready sound
C13_Witness ==
    /\ last = [op |-> "tick", wasFailed |-> FALSE]
    /\ mm.out = << ModeCall("HOLD"), PlayCall("GPS_SIGNAL_LOW_SOUND"),
                   PlayCall("READY_SOUND") >>

----------------------------------------------------------------------------
(* C14 *)

\* the fields of the supervisor state, without the calls made
Fields(m) == [m EXCEPT !.out = <<>>]

\* C14: in every reachable state, for every handler and payload and a fixed
\* clock reading, delivering an event twice leaves the supervisor state as
\* delivering it once does.
C14_HandlersAreIdempotent ==
    /\ \A hb \in Heartbeats :
          Fields(onHeatbeat(onHeatbeat(Enter, now, hb), now, hb))
             = Fields(onHeatbeat(Enter, now, hb))
    /\ Fields(onMissionItemReached(onMissionItemReached(Enter, now), now))
          = Fields(onMissionItemReached(Enter, now))
    /\ \A seq \in WaypointIds :
          Fields(onMissionCurrent(onMissionCurrent(Enter, now, seq), now, seq))
             = Fields(onMissionCurrent(Enter, now, seq))
    /\ \A wp_dist \in Distances :
          Fields(onNavControllerOutput(onNavControllerOutput(Enter, now, wp_dist),
                                       now, wp_dist))
             = Fields(onNavControllerOutput(Enter, now, wp_dist))
    /\ \A fix_type \in FixTypes :
          /\ Fields(onGPSRawInt(onGPSRawInt(Enter, fix_type), fix_type))
                = Fields(onGPSRawInt(Enter, fix_type))
          /\ Fields(onGPS2Raw(onGPS2Raw(Enter, fix_type), fix_type))
                = Fields(onGPS2Raw(Enter, fix_type))

\* the rover moved away twice, and the last reading delivered again is
\* steady in the wrong direction and changes nothing
C14_Witness ==
    /\ last = [op |-> "event", wasFailed |-> FALSE]
    /\ mm.wrongDirection
    /\ mm.wrongDirectionCount = 2
    /\ mm.lastDistanceToWaypoint = 70
    /\ onNavControllerOutput(Enter, now, 70) = Enter

----------------------------------------------------------------------------
(* C15 *)

\* the calls C15 rules out after failMission in the same tick
AfterFailCalls ==
    { ModeCall("HOLD"), ModeCall("AUTO"),
      PlayCall("GPS_SIGNAL_LOW_SOUND"), PlayCall("WRONG_DIRECTION_SOUND") }

\* C15: failMission runs only in a tick that started with failed clear, at
\* most once in a tick, and after it that tick asks for no HOLD or AUTO and
\* plays no GPS-degraded and no wrong-direction sound.  (Refuted: the
\* evaluator goes on after the link-loss failMission.)
C15_FailMissionEndsEvaluation ==
    [][HandlerStep("tick") =>
          /\ Calls(mm', PlayCall("EMERGENCY_STOP_SOUND")) <= 1
          /\ Calls(mm', PlayCall("EMERGENCY_STOP_SOUND")) > 0 => ~mm.isFailed
          /\ \A i, j \in DOMAIN mm'.out :
                (i < j /\ mm'.out[i] = PlayCall("EMERGENCY_STOP_SOUND"))
                   => mm'.out[j] \notin AfterFailCalls]_vars

----------------------------------------------------------------------------
(* C16 *)

\* C16: no event handler sets failed, drives a relay to its fail-safe
\* position or sends a mode command; failed goes from false to true only in
\* a tick.
C16_EventsNeverEscalate ==
    [][/\ (AnyHandlerStep /\ ~HandlerStep("tick")) =>
              /\ mm'.isFailed => mm.isFailed
              /\ Calls(mm', <<"powerRelayOff">>) = 0
              /\ Calls(mm', <<"alarmRelayOn">>) = 0
              /\ \A roverMode \in Modes : Calls(mm', ModeCall(roverMode)) = 0
       /\ (~mm.isFailed /\ mm'.isFailed) => HandlerStep("tick")]_vars

\* an event arrived in AUTO with the progress timer run out and the link
\* overdue, and left the failsafe clear
C16_Witness ==
    /\ last = [op |-> "event", wasFailed |-> FALSE]
    /\ mm.roverMode = "AUTO"
    /\ ~mm.isFailed
    /\ mm.firstHeartbeat /\ HeartbeatOverdue
    /\ noProgress(mm, now)

----------------------------------------------------------------------------
(* C17 *)

\* the progress timer is armed and has run out, read on the clock
ProgressOverdue ==
    /\ mm.lastProgressMadeTimeMilliseconds # Zero32
    /\ Geq32(Sub32(now, mm.lastProgressMadeTimeMilliseconds), TimeoutMs)

\* C17: a tick that starts with failed clear ends with failed set exactly
\* when the link is lost, or the mode is AUTO, GPS is not lost and progress
\* is stalled; with GPS lost and the link alive a stall does not trip it.
C17_TickFailsIffLinkLostOrStalled ==
    [][(HandlerStep("tick") /\ ~mm.isFailed) =>
          (mm'.isFailed <=>
              \/ (mm.firstHeartbeat /\ HeartbeatOverdue)
              \/ (/\ mm.roverMode = "AUTO"
                  /\ BestFix >= lowestGpsFixTpye
                  /\ ProgressOverdue))]_vars

\* a tick in AUTO with GPS lost, the link alive and the progress timer run
\* out left the failsafe clear
C17_Witness ==
    /\ last = [op |-> "tick", wasFailed |-> FALSE]
    /\ mm.roverMode = "AUTO"
    /\ BestFix < lowestGpsFixTpye
    /\ mm.firstHeartbeat /\ ~HeartbeatOverdue
    /\ ProgressOverdue
    /\ ~mm.isFailed

----------------------------------------------------------------------------
(* C18 *)

\* C18: once the relays have been actuated, in every reachable state failed
\* set goes with power relay OFF and alarm relay ON, failed clear goes with
\* power relay ON and alarm relay OFF, and the two relays are never both ON
\* or both OFF.
C18_RelaysTrackLatch ==
    (mm.powerRelay # "unset" \/ mm.alarmRelay # "unset") =>
        /\ mm.isFailed => (mm.powerRelay = "off" /\ mm.alarmRelay = "on")
        /\ ~mm.isFailed => (mm.powerRelay = "on" /\ mm.alarmRelay = "off")
        /\ {mm.powerRelay, mm.alarmRelay} = {"on", "off"}

\* a stall tripped the failsafe after an earlier reset had armed the relays
C18_Witness ==
    /\ last = [op |-> "tick", wasFailed |-> FALSE]
    /\ mm.isFailed
    /\ mm.firstHeartbeat
    /\ mm.out = <<<<"powerRelayOff">>, <<"alarmRelayOn">>,
                  PlayCall("EMERGENCY_STOP_SOUND")>>
    /\ mm.powerRelay = "off" /\ mm.alarmRelay = "on"

----------------------------------------------------------------------------
(* C19 *)

\* C19: a tick asks for AUTO only if the supervisor itself asked for HOLD on
\* GPS loss since the vehicle was last seen in AUTO; a HOLD entered for
\* another reason never causes a request for AUTO.  (Refuted: the evaluator
\* asks for AUTO in any HOLD with good GPS.)
C19_AutoOnlyAfterGpsHold ==
    [][(HandlerStep("tick") /\ Calls(mm', ModeCall("AUTO")) > 0) => gpsHold]_vars

----------------------------------------------------------------------------
(* C20 *)

\* the heartbeat was handled as a mode transition to the mode it reports
ModeTransition(hb) ==
    /\ mm'.roverMode = hb.custom_mode
    /\ ModeSound(hb.custom_mode) # "NONE"
          => Calls(mm', PlayCall(ModeSound(hb.custom_mode))) = 1
    /\ ResetState(mm')
    /\ Calls(mm', <<"powerRelayOn">>) = 1
    /\ Calls(mm', <<"alarmRelayOff">>) = 1

\* the heartbeat changed nothing but lastHeartbeatTime and the first-heartbeat
\* guard
OnlyLinkBookkeeping ==
    [mm' EXCEPT !.out = <<>>,
                !.lastHeartbeatTimeMilliseconds = mm.lastHeartbeatTimeMilliseconds,
                !.firstHeartbeat = mm.firstHeartbeat]
       = Enter

\* C20 as stated: every heartbeat whose reported mode differs from the stored
\* mode is handled as a mode transition (mode stored, mode sound, reset
\* routine), whatever else it carries; a heartbeat that makes no transition
\* changes only lastHeartbeatTime and the first-heartbeat guard.  (Refuted: a
\* heartbeat that is not of a ground rover makes no transition.)
C20_EveryModeDifferenceIsTransition ==
    [][\A hb \in Heartbeats :
          (HandlerStep("onHeatbeat") /\ mm' = onHeatbeat(Enter, now, hb)) =>
              IF hb.custom_mode # mm.roverMode
              THEN ModeTransition(hb)
              ELSE OnlyLinkBookkeeping]_vars

\* C20 amended: every heartbeat of a ground rover whose reported mode differs
\* from the stored mode is handled as a mode transition (mode stored, the
\* mode's sound where it has one, reset routine); every other heartbeat
\* changes only lastHeartbeatTime and the first-heartbeat guard.
C20_RoverModeDifferenceIsTransition ==
    [][\A hb \in Heartbeats :
          (HandlerStep("onHeatbeat") /\ mm' = onHeatbeat(Enter, now, hb)) =>
              IF hb.type = "GROUND_ROVER" /\ hb.custom_mode # mm.roverMode
              THEN ModeTransition(hb)
              ELSE OnlyLinkBookkeeping]_vars

\* the first heartbeat reported HOLD: mode sound, reset, then link acquired
C20_Witness ==
    /\ last.op = "onHeatbeat"
    /\ mm.roverMode = "HOLD"
    /\ mm.out = <<PlayCall("HOLD_MODE_SOUND"), <<"powerRelayOn">>,
                  <<"alarmRelayOff">>, PlayCall("MAVLINK_GOOD_SOUND")>>

====
